---------------------------- MODULE Spec2Model ----------------------------
(***************************************************************************)
(* A state-machine model of AmiiboTool (src/amiibotool.js): key loading,   *)
(* the two pipelines changeUID and generateFresh, and the validator        *)
(* validateBin / validateFiles, over a small file system and the external  *)
(* keyed transform (maboii.unpack / maboii.pack).                          *)
(*                                                                         *)
(* Byte buffers are sequences; the byte the source calls data[i] is        *)
(* At(data, i), that is data[i+1].                                         *)
(***************************************************************************)
EXTENDS Integers, Sequences, FiniteSets, TLC

(***************************************************************************)
(* Bounds of the model.                                                    *)
(***************************************************************************)
\* how many different outcomes of crypto.randomBytes(6) are explored
MaxRandom == 2
\* how many files one validateFiles call is given at most
MaxFiles == 2
\* how many different garbage fillings the arbitrary oracles return
MaxSeeds == 1
\* how many calls of changeUID, generateFresh and validateFiles one behaviour makes
MaxCalls == 1

(***************************************************************************)
(* Numbers and bytes as JavaScript computes them.                          *)
(***************************************************************************)
\* the size of a tag image
ImageSize == 540

\* parseInt's NaN, and the undefined of an out-of-range array read; both are
\* 0 under ^ and when stored into a Buffer
NaN == -1

Byte == 0..255

\* ToInt32 of a value the model can hold
ToInt(v) == IF v \in Byte THEN v ELSE 0

RECURSIVE XorBits(_, _, _)
XorBits(a, b, n) ==
    IF n = 0 THEN 0
    ELSE (((a % 2) + (b % 2)) % 2) + 2 * XorBits(a \div 2, b \div 2, n - 1)

\* a ^ b
Xor(a, b) == XorBits(ToInt(a), ToInt(b), 8)

\* data[i]: undefined (NaN here) past the end
At(data, i) == IF i >= 0 /\ i < Len(data) THEN data[i + 1] ELSE NaN

\* the sequence f[1], ..., f[n], every element computed once
Seq1(f, n) == SubSeq(f, 1, n)

\* data.slice(from, to)
Slice(data, from, to) ==
    LET hi == IF to < Len(data) THEN to ELSE Len(data)
    IN  IF from >= hi THEN << >> ELSE SubSeq(data, from + 1, hi)

\* new Array(n).fill(v)
Fill(n, v) == Seq1([k \in 1..n |-> v], n)

\* data[off + i] = vals[i] for every i (an array grows when written past its end)
PatchAt(data, off, vals) ==
    LET grown == IF off + Len(vals) > Len(data)
                 THEN data \o Fill(off + Len(vals) - Len(data), NaN)
                 ELSE data
    IN  SubSeq(grown, 1, off) \o vals
        \o SubSeq(grown, off + Len(vals) + 1, Len(grown))

\* Buffer.from(array): every element becomes a byte
ToBuffer(data) == Seq1([k \in 1..Len(data) |-> ToInt(data[k])], Len(data))

Zeros(n) == Fill(n, 0)

(***************************************************************************)
(* Hex strings.  A character is its digit value 0..15, or NonHex for any   *)
(* character that is no hex digit.                                         *)
(***************************************************************************)
NonHex == 16

HexChar == 0..15

\* parseInt(s.substr(i, 2), 16): NaN when the first character is no digit,
\* the first digit alone when the second is none (or is missing)
ParseInt16(s, i) ==
    LET c1 == IF i + 1 <= Len(s) THEN s[i + 1] ELSE NonHex
        c2 == IF i + 2 <= Len(s) THEN s[i + 2] ELSE NonHex
    IN  IF c1 \notin HexChar THEN NaN
        ELSE IF c2 \notin HexChar THEN c1
        ELSE 16 * c1 + c2

\* for (i = 0; i < s.length; i += 2) out.push(parseInt(s.substr(i, 2), 16))
ParsePairs(s) ==
    Seq1([k \in 1..((Len(s) + 1) \div 2) |-> ParseInt16(s, 2 * (k - 1))],
         (Len(s) + 1) \div 2)

\* bytes.map(b => b.toString(16).padStart(2, '0')).join('')
ToHex(bytes) ==
    Seq1([k \in 1..(2 * Len(bytes)) |->
             IF k % 2 = 1 THEN ToInt(bytes[(k + 1) \div 2]) \div 16
             ELSE ToInt(bytes[k \div 2]) % 16],
         2 * Len(bytes))

\* typedArray.map(b => b.toString(16).padStart(2, '0')).join('') on a Buffer or
\* a Uint8Array: map stores every string back as a byte (0 when the string is
\* no decimal number), and join writes those bytes in decimal
RECURSIVE TypedHexJoin(_)
TypedHexJoin(bytes) ==
    IF bytes = << >> THEN << >>
    ELSE LET hi == ToInt(Head(bytes)) \div 16
             lo == ToInt(Head(bytes)) % 16
             stored == IF hi > 9 \/ lo > 9 THEN 0 ELSE 10 * hi + lo
         IN  (IF stored > 9 THEN << stored \div 10, stored % 10 >> ELSE << stored >>)
             \o TypedHexJoin(Tail(bytes))

(***************************************************************************)
(* The field engine.                                                      *)
(***************************************************************************)
\* calculateBCC0 without the 0x88 of the cascade tag
calculateBCC0NoTag(uid) == Xor(Xor(At(uid, 0), At(uid, 1)), At(uid, 2))

\* calculateBCC0
calculateBCC0(uid) == Xor(Xor(Xor(At(uid, 0), At(uid, 1)), At(uid, 2)), 136)

\* calculatePWD
calculatePWD(packedUID) ==
    LET uid7 == << At(packedUID, 0), At(packedUID, 1), At(packedUID, 2),
                   At(packedUID, 4), At(packedUID, 5), At(packedUID, 6),
                   At(packedUID, 7) >>
    IN  << Xor(Xor(170, uid7[2]), uid7[4]),
           Xor(Xor(85, uid7[3]), uid7[5]),
           Xor(Xor(170, uid7[4]), uid7[6]),
           Xor(Xor(85, uid7[5]), uid7[7]) >>

\* packedData[4] ^ packedData[5] ^ packedData[6] ^ packedData[7]
Position8(packed) ==
    Xor(Xor(Xor(At(packed, 4), At(packed, 5)), At(packed, 6)), At(packed, 7))

\* the PACK bytes
PackBytes == << 128, 128 >>

\* magicBytes1 / packedMagicBytes
magicBytes1 == << 72, 15, 224, 241, 16, 255, 238, 165 >>

\* magicBytes2
magicBytes2 == << 1, 0, 15, 191, 0, 0, 0, 4, 95, 0, 0, 0, 78, 219, 241, 40,
                  128, 128, 0, 0 >>

\* [u0, u1, u2, bcc0, u3, u4, u5, u6], as written at unpackedData[468..475]
UidBlock(uid) ==
    << At(uid, 0), At(uid, 1), At(uid, 2), calculateBCC0(uid),
       At(uid, 3), At(uid, 4), At(uid, 5), At(uid, 6) >>

\* parseCustomUID: the error, or the parsed bytes
parseCustomUID(uidHex) ==
    IF Len(uidHex) # 14
    THEN [threw |-> TRUE, uid |-> << >>]
    ELSE [threw |-> FALSE, uid |-> ParsePairs(uidHex)]

\* generateRandomUID, for the six bytes crypto.randomBytes returned
generateRandomUID(randomBytes) == << 4 >> \o randomBytes

(***************************************************************************)
(* The external keyed transform: maboii.unpack(keys, packed) and           *)
(* maboii.pack(keys, unpacked).  The tool treats it as opaque, so the      *)
(* model runs against a family of transforms, one chosen for the whole     *)
(* behaviour (the transform is deterministic):                             *)
(*   "signed"  the library's byte layout, with a signature over the        *)
(*             logical bytes 468..520 (the UID block and what follows);    *)
(*             reads only the first 540 bytes of a longer buffer and       *)
(*             refuses a shorter one;                                      *)
(*   "layout"  the same byte layout, with a signature that covers only     *)
(*             the logical bytes 476..520, and bytes missing from a short  *)
(*             buffer read as 0;                                           *)
(*   "garbage" an arbitrary transform: pack returns a filling that does    *)
(*             not depend on its input at all, unpack accepts every        *)
(*             540-byte buffer or none.                                    *)
(***************************************************************************)
GarbageSeeds == {90 + 17 * k : k \in 0..(MaxSeeds - 1)}

Oracles ==
    {[kind |-> "signed", seed |-> 0, accept |-> TRUE],
     [kind |-> "layout", seed |-> 0, accept |-> TRUE]}
    \cup [kind : {"garbage"}, seed : GarbageSeeds, accept : BOOLEAN]

\* the packed (tag) offset that holds the logical (internal) offset i
TagOffset(i) ==
    IF i < 8 THEN i + 8
    ELSE IF i < 40 THEN i + 120
    ELSE IF i < 76 THEN i - 24
    ELSE IF i < 436 THEN i + 84
    ELSE IF i < 468 THEN i - 384
    ELSE IF i < 476 THEN i - 468
    ELSE IF i < 520 THEN i - 392
    ELSE i

\* the logical offset held at the packed offset t
InternalOffset(t) ==
    IF t < 8 THEN t + 468
    ELSE IF t < 16 THEN t - 8
    ELSE IF t < 52 THEN t + 24
    ELSE IF t < 84 THEN t + 384
    ELSE IF t < 128 THEN t + 392
    ELSE IF t < 160 THEN t - 120
    ELSE IF t < 520 THEN t - 84
    ELSE t

\* where the signature is kept in the logical image
SigRange == 436..467

\* the sum modulo 256 of data[from], ..., data[to - 1], by halves
RECURSIVE SumFrom(_, _, _)
SumFrom(data, from, to) ==
    IF from >= to THEN 0
    ELSE IF to = from + 1 THEN ToInt(At(data, from))
    ELSE LET mid == (from + to) \div 2
         IN  (SumFrom(data, from, mid) + SumFrom(data, mid, to)) % 256

\* the signature byte of a logical image
Signature(o, logical) ==
    IF o.kind = "signed" THEN (SumFrom(logical, 468, 520) + 1) % 256
    ELSE (SumFrom(logical, 476, 520) + 1) % 256

Garbage(seed) == Seq1([k \in 1..ImageSize |-> (seed + 37 * (k - 1)) % 256], ImageSize)

\* the logical image of a packed buffer, by the byte layout alone
ToInternal(packed) ==
    Seq1([k \in 1..ImageSize |-> ToInt(At(packed, TagOffset(k - 1)))], ImageSize)

\* maboii.unpack(keys, packed): {result, unpacked}
Unpack(o, packed) ==
    IF o.kind = "garbage"
    THEN [result |-> o.accept /\ Len(packed) = ImageSize,
          unpacked |-> Garbage(o.seed)]
    ELSE LET logical == ToInternal(packed)
         IN  [result |->
                  /\ (o.kind = "signed" => Len(packed) >= ImageSize)
                  /\ \A i \in SigRange :
                         At(logical, i) = Signature(o, logical),
              unpacked |-> logical]

\* maboii.pack(keys, unpacked): the packed image
Pack(o, unpacked) ==
    IF o.kind = "garbage"
    THEN Garbage(o.seed + 1)
    ELSE LET sig == Signature(o, unpacked)
         IN  Seq1([k \in 1..ImageSize |->
                      LET i == InternalOffset(k - 1)
                      IN  IF i \in SigRange THEN sig
                          ELSE ToInt(At(unpacked, i))],
                  ImageSize)

(***************************************************************************)
(* Files.  A file is absent, holds bytes, or holds the lines of a text     *)
(* capture.  A line of text is described by what the parser asks of it:    *)
(*   "header"      'Filetype: Flipper NFC device'                          *)
(*   "other"       any line that holds neither the marker nor 'Page '      *)
(*   "Page"        'Page <n>: XX XX XX XX', hex digits of either case      *)
(*   "page"        the same with the word in another case ('page 5: ...')  *)
(*   "PageBad"     a line that starts with 'Page ' and has no four bytes   *)
(*   "PageHeader"  a page line that holds the marker as well               *)
(* with the page number n it carries and the four bytes it carries.        *)
(***************************************************************************)
Absent == [kind |-> "absent"]
BinFile(data) == [kind |-> "bin", data |-> data]
TextFile(lines) == [kind |-> "text", lines |-> lines]

\* lines[0].includes('Flipper NFC device')
IncludesMarker(line) == line.kind \in {"header", "PageHeader"}

\* a test of the start of the line that ignores case, as the pattern does
StartsWithPageAnyCase(line) == line.kind \in {"Page", "PageBad", "PageHeader", "page"}

\* line.startsWith('Page ')
StartsWithPage(line) == line.kind \in {"Page", "PageBad", "PageHeader"}

\* line.match(/Page \d+: ([0-9A-F]{2}) ([0-9A-F]{2}) ([0-9A-F]{2}) ([0-9A-F]{2})/i)
MatchesPage(line) == line.kind \in {"Page", "page", "PageHeader"}

\* the paths whose lower-cased suffix is 'nfc'
IsNfcPath(filePath) == filePath \in {"mario.nfc", "broken.nfc", "out.nfc", "capture.nfc"}

\* parseNFCFile: the error, or the bytes of the page lines in file order
\* (the lines lo..hi, by halves)
RECURSIVE PageBytesOf(_, _, _)
PageBytesOf(lines, lo, hi) ==
    IF lo > hi THEN << >>
    ELSE IF lo = hi
    THEN IF StartsWithPage(lines[lo]) /\ MatchesPage(lines[lo])
         THEN lines[lo].bytes ELSE << >>
    ELSE LET mid == (lo + hi) \div 2
         IN  PageBytesOf(lines, lo, mid) \o PageBytesOf(lines, mid + 1, hi)

PageBytes(lines) == PageBytesOf(lines, 1, Len(lines))

parseNFCFile(file) ==
    IF file.kind = "absent" THEN [threw |-> TRUE, data |-> << >>]
    ELSE IF file.kind = "bin" \/ file.lines = << >> THEN [threw |-> TRUE, data |-> << >>]
    ELSE IF ~IncludesMarker(file.lines[1]) THEN [threw |-> TRUE, data |-> << >>]
    ELSE LET pages == PageBytes(file.lines)
         IN  IF Len(pages) # ImageSize THEN [threw |-> TRUE, data |-> << >>]
             ELSE [threw |-> FALSE, data |-> pages]

\* readTemplateFile: the error, or the bytes read
readTemplateFile(fsys, filePath) ==
    IF IsNfcPath(filePath) THEN parseNFCFile(fsys[filePath])
    ELSE IF fsys[filePath].kind = "absent" THEN [threw |-> TRUE, data |-> << >>]
    ELSE [threw |-> FALSE, data |-> fsys[filePath].data]

(***************************************************************************)
(* The files the tool is given, and the paths it is asked to write.        *)
(***************************************************************************)
\* a function with all its values worked out
Table(f) == f @@ << >>

\* a figure's logical image: UID 04 a1 b2 c3 d4 e5 f6, the amiibo ID of Mario
\* (0000000000340102), the bytes that end up at packed 9..16, some game data
MarioLogical ==
    LET a == PatchAt(Zeros(ImageSize), 468, UidBlock(<< 4, 161, 178, 195, 212, 229, 246 >>))
        b == PatchAt(a, 476, << 0, 0, 0, 0, 0, 52, 1, 2 >>)
        c == PatchAt(PatchAt(b, 1, SubSeq(magicBytes1, 1, 7)), 40, << 165 >>)
        d == PatchAt(PatchAt(c, 100, << 17, 34, 51, 68 >>), 44, << 7 >>)
    IN  PatchAt(d, 520, magicBytes2)

\* the dump of that figure under transform o
WithPWD(packed) == PatchAt(PatchAt(packed, 532, calculatePWD(packed)), 536, PackBytes)

WithPosition8(packed) == PatchAt(packed, 8, << Position8(packed) >>)

MarioDump(o) == WithPWD(WithPosition8(Pack(o, MarioLogical)))

\* the text capture of a dump: the header, a line of another kind, the pages
CaptureLines(dump) ==
    << [kind |-> "header", n |-> 0, bytes |-> << >>],
       [kind |-> "other", n |-> 0, bytes |-> << >>] >>
    \o Seq1([k \in 1..(ImageSize \div 4) |->
                [kind |-> "Page", n |-> k - 1, bytes |-> SubSeq(dump, 4 * k - 3, 4 * k)]],
            ImageSize \div 4)

\* the files the tool is given; it never writes them
GivenPaths == {"mario.bin", "badsig.bin", "badpack.bin", "short.bin", "mario.nfc",
               "broken.nfc", "missing.bin"}

\* the paths the tool is asked to write
OutputPaths == {"out.bin", "out.nfc", "ro.bin"}

Paths == GivenPaths \cup OutputPaths

TemplatePaths == {"mario.bin", "badsig.bin", "short.bin", "mario.nfc", "missing.bin"}

\* fs.writeFileSync throws on these
Unwritable(filePath) == filePath = "ro.bin"

\* the given files made of a dump: the dump, the dump with a wrong signature
\* byte, with a wrong PACK, cut short, as a capture, as a capture without its
\* header; and a path where there is no file
FilesOfDump(dump) ==
    Table([p \in GivenPaths |->
        CASE p = "mario.bin" -> BinFile(dump)
          [] p = "badsig.bin" -> BinFile(PatchAt(dump, 60, << (dump[61] + 1) % 256 >>))
          [] p = "badpack.bin" -> BinFile(PatchAt(dump, 536, << 128, 129 >>))
          [] p = "short.bin" -> BinFile(SubSeq(dump, 1, 532))
          [] p = "mario.nfc" -> TextFile(CaptureLines(dump))
          [] p = "broken.nfc" -> TextFile(Tail(CaptureLines(dump)))
          [] OTHER -> Absent])

GivenFilesOf(kind) == FilesOfDump(MarioDump([kind |-> kind, seed |-> 0, accept |-> TRUE]))

SignedFiles == GivenFilesOf("signed")
LayoutFiles == GivenFilesOf("layout")

\* the given files are dumps that carry the signature of the transform in use
GivenFiles(o) == IF o.kind = "layout" THEN LayoutFiles ELSE SignedFiles

\* every file: the given ones, and the written ones as they are now
Files(o, written) ==
    [p \in Paths |-> IF p \in DOMAIN written THEN written[p] ELSE GivenFiles(o)[p]]

(***************************************************************************)
(* The validator.                                                          *)
(***************************************************************************)
\* validateBin returned false
ReturnedFalse == [isReport |-> FALSE]

\* a validator that goes on to the other checks whatever unpack said
UnpackNeverFails(unpackResult) == FALSE

\* if (!unpackResult.result) return false
UnpackFailed(unpackResult) == ~unpackResult.result

\* the overall verdict with the PACK check left out
OverallWithoutPack(hmacValid, pos8Valid, pwdValid, packValid) ==
    hmacValid /\ pos8Valid /\ pwdValid

\* unpackResult.result && pos8Valid && pwdValid && packValid
Overall(hmacValid, pos8Valid, pwdValid, packValid) ==
    hmacValid /\ pos8Valid /\ pwdValid /\ packValid

\* the checks of position 8, PWD and PACK on the raw packed bytes, and the report
Report(dataArray, unpackResult) ==
    LET uid == Slice(dataArray, 0, 8)
        pos8Expected == Xor(Xor(Xor(uid[5], uid[6]), uid[7]), uid[8])
        pos8Actual == At(dataArray, 8)
        pos8Valid == pos8Expected = pos8Actual
        amiiboId == Slice(dataArray, 84, 92)
        pwdBytes == Slice(dataArray, 532, 536)
        pack == Slice(dataArray, 536, 538)
        uid7 == << uid[1], uid[2], uid[3], uid[5], uid[6], uid[7], uid[8] >>
        expectedPwd == << Xor(Xor(170, uid7[2]), uid7[4]),
                          Xor(Xor(85, uid7[3]), uid7[5]),
                          Xor(Xor(170, uid7[4]), uid7[6]),
                          Xor(Xor(85, uid7[5]), uid7[7]) >>
        pwdValid == \A i \in 1..4 : pwdBytes[i] = expectedPwd[i]
        packValid == pack[1] = 128 /\ pack[2] = 128
        isValid == Overall(unpackResult.result, pos8Valid, pwdValid, packValid)
    IN  [isReport |-> TRUE,
         valid |-> isValid,
         uid |-> ToHex(uid),
         amiiboId |-> ToHex(amiiboId),
         hmacValid |-> unpackResult.result,
         pos8Valid |-> pos8Valid,
         pwdValid |-> pwdValid,
         packValid |-> packValid]

\* validateBin: false, or the report
validateBin(o, fsys, filePath) ==
    IF fsys[filePath].kind = "absent" THEN ReturnedFalse
    ELSE LET rd == readTemplateFile(fsys, filePath)
         IN  IF rd.threw THEN ReturnedFalse
             ELSE IF Len(rd.data) # ImageSize THEN ReturnedFalse
             ELSE LET unpackResult == Unpack(o, rd.data)
                  IN  IF UnpackFailed(unpackResult) THEN ReturnedFalse
                      ELSE Report(rd.data, unpackResult)

\* the given files never change, so what validateBin makes of each of them is
\* worked out once for every transform
GivenResults ==
    Table([o \in Oracles |->
              Table([p \in GivenPaths |-> validateBin(o, GivenFiles(o), p)])])

\* this.validateBin(filePath), on the files as they are
validateFile(o, fsys, filePath) ==
    IF filePath \in GivenPaths THEN GivenResults[o][filePath]
    ELSE validateBin(o, fsys, filePath)

\* a loop over the files that stops at the first file validateBin returns false for
RECURSIVE ValidateUntilFailure(_, _, _)
ValidateUntilFailure(o, fsys, filePaths) ==
    IF filePaths = << >> THEN << >>
    ELSE LET result == validateFile(o, fsys, Head(filePaths))
         IN  << [file |-> Head(filePaths), result |-> result] >>
             \o (IF result.isReport
                 THEN ValidateUntilFailure(o, fsys, Tail(filePaths))
                 ELSE << >>)

\* a loop whose validator remembers the files it has been given, and returns
\* false for a file it is given again
RECURSIVE ValidateRemembering(_, _, _, _)
ValidateRemembering(o, fsys, filePaths, seen) ==
    IF filePaths = << >> THEN << >>
    ELSE << [file |-> Head(filePaths),
             result |-> IF Head(filePaths) \in seen THEN ReturnedFalse
                        ELSE validateFile(o, fsys, Head(filePaths))] >>
         \o ValidateRemembering(o, fsys, Tail(filePaths), seen \cup {Head(filePaths)})

ValidateAllOnce(o, fsys, filePaths) == ValidateRemembering(o, fsys, filePaths, {})

\* for (const filePath of filePaths) results.push({file, result: validateBin(filePath)})
RECURSIVE ValidateAll(_, _, _)
ValidateAll(o, fsys, filePaths) ==
    IF filePaths = << >> THEN << >>
    ELSE << [file |-> Head(filePaths), result |-> validateFile(o, fsys, Head(filePaths))] >>
         \o ValidateAll(o, fsys, Tail(filePaths))

\* results.filter(r => r.result && r.result.valid).length
RECURSIVE CountValid(_)
CountValid(results) ==
    IF results = << >> THEN 0
    ELSE (IF Head(results).result.isReport /\ Head(results).result.valid THEN 1 ELSE 0)
         + CountValid(Tail(results))

(***************************************************************************)
(* The patches of the packed image after maboii.pack.                      *)
(***************************************************************************)
\* position 8 with packedData[7] left out of the XOR
FixPosition8Short(packedData) ==
    PatchAt(packedData, 8,
            << Xor(Xor(At(packedData, 4), At(packedData, 5)), At(packedData, 6)) >>)

\* packedData[8] = packedData[4] ^ packedData[5] ^ packedData[6] ^ packedData[7]
FixPosition8(packedData) == PatchAt(packedData, 8, << Position8(packedData) >>)

\* the amiibo ID left as pack returned it
RestoreAmiiboIDSkipped(packedData, originalAmiiboID) == packedData

\* for (i = 0; i < 8; i++) packedData[84 + i] = originalAmiiboID[i]
RestoreAmiiboID(packedData, originalAmiiboID) ==
    PatchAt(packedData, 84, Seq1([i \in 1..8 |-> At(originalAmiiboID, i - 1)], 8))

\* the PWD written one byte early
SetPWDOffByOne(packedData) == PatchAt(packedData, 531, calculatePWD(packedData))

\* packedData[532..535] = calculatePWD(packedData)
SetPWD(packedData) == PatchAt(packedData, 532, calculatePWD(packedData))

\* packedData[536] = 0x80; packedData[537] = 0x80
SetPACK(packedData) == PatchAt(packedData, 536, PackBytes)

\* the magic bytes left as pack returned them
SetPackedMagicSkipped(packedData) == packedData

\* for (i = 0; i < 8; i++) packedData[9 + i] = packedMagicBytes[i]
SetPackedMagic(packedData) == PatchAt(packedData, 9, magicBytes1)

\* changeUID, from the pack to the write
PatchChanged(packedData, originalAmiiboID) ==
    SetPACK(SetPWD(RestoreAmiiboID(FixPosition8(packedData), originalAmiiboID)))

\* generateFresh, from the pack to the write
PatchFresh(packedData) == SetPACK(SetPWD(FixPosition8(SetPackedMagic(packedData))))

\* unpackedData[468..475] = [u0, u1, u2, bcc0, u3, u4, u5, u6]
SetUID(unpackedData, newUID) == PatchAt(unpackedData, 468, UidBlock(newUID))

\* the two blocks of magic bytes in the unpacked data of generateFresh
SetMagic(unpackedData) ==
    PatchAt(PatchAt(unpackedData, 9, magicBytes1), 520, magicBytes2)

\* amiiboId.length !== 16
BadAmiiboId(amiiboId) == Len(amiiboId) # 16

\* unpackedData[476..483] = idBytes
SetAmiiboId(unpackedData, amiiboId) ==
    LET idBytes == ParsePairs(amiiboId)
    IN  PatchAt(unpackedData, 476, Seq1([i \in 1..8 |-> At(idBytes, i - 1)], 8))

\* customUID ? parseCustomUID(customUID) : generateRandomUID()
Truthy(customUID) == ~customUID.null /\ customUID.s # << >>

\* a self-check that turns a failed validation into an error of the call
AfterSelfCheckThrows(fsys, outputPath, validationResult, report) ==
    LET failed == ~validationResult.isReport \/ ~validationResult.valid
    IN  [fs |-> fsys,
         warned |-> failed,
         ret |-> IF failed
                 THEN [threw |-> TRUE, error |-> "ValidationError", value |-> << >>]
                 ELSE [threw |-> FALSE, error |-> "none", value |-> report]]

\* a self-check that removes the file it finds invalid
AfterSelfCheckRollback(fsys, outputPath, validationResult, report) ==
    LET failed == ~validationResult.isReport \/ ~validationResult.valid
    IN  [fs |-> IF failed THEN [fsys EXCEPT ![outputPath] = [kind |-> "absent"]]
                ELSE fsys,
         warned |-> failed,
         ret |-> [threw |-> FALSE, error |-> "none", value |-> report]]

\* what the pipeline does once validateBin has looked at the written file: a
\* warning at most; the file stays and the report is returned
AfterSelfCheck(fsys, outputPath, validationResult, report) ==
    [fs |-> fsys,
     warned |-> ~validationResult.isReport \/ ~validationResult.valid,
     ret |-> [threw |-> FALSE, error |-> "none", value |-> report]]

(***************************************************************************)
(* The inputs the model explores.                                          *)
(***************************************************************************)
NullArg == [null |-> TRUE, s |-> << >>]
Str(s) == [null |-> FALSE, s |-> s]

\* "0451186d0da09e"
Uid14 == << 0, 4, 5, 1, 1, 8, 6, 13, 0, 13, 10, 0, 9, 14 >>
\* "0451186d0da0", two characters short
Uid12 == SubSeq(Uid14, 1, 12)
\* "0451186d0da09z", fourteen characters, the last no hex digit
Uid14z == SubSeq(Uid14, 1, 13) \o << NonHex >>

\* "0451186d0da0z9", fourteen characters, the last pair parses to NaN
Uid14n == SubSeq(Uid14, 1, 12) \o << NonHex, 9 >>

CustomUIDs == {NullArg, Str(<< >>), Str(Uid14), Str(Uid12), Str(Uid14z), Str(Uid14n)}

\* "1919000000090002"
Id16 == << 1, 9, 1, 9, 0, 0, 0, 0, 0, 0, 0, 9, 0, 0, 0, 2 >>
\* "19190000000900", two characters short
Id14 == SubSeq(Id16, 1, 14)
\* "191900000009000z", sixteen characters, the last no hex digit
Id16z == SubSeq(Id16, 1, 15) \o << NonHex >>

AmiiboIds == {Id16, Id14, Id16z}

\* the outcomes of crypto.randomBytes(6) that are explored
RandomSamples ==
    {Seq1([k \in 1..6 |-> (53 * r + 29 * k) % 256], 6) : r \in 1..MaxRandom}

(***************************************************************************)
(* The state.  An argument of a call is drawn when the call first reads    *)
(* it; until then the call record holds NotRead (a null customUID).        *)
(***************************************************************************)
VARIABLES
    keys,               \* this.keys: "null" or "loaded"
    oracle,             \* the transform behind maboii.unpack / maboii.pack
    fs,                 \* the files at the paths the tool writes
    calls,              \* how many calls have been made
    pc,                 \* where the running call stands; "idle" between calls
    call,               \* the running call and its arguments
    templateData,       \* changeUID
    unpackedData,       \* changeUID, generateFresh
    originalAmiiboID,   \* changeUID
    newUID,             \* changeUID, generateFresh
    packedData,         \* changeUID, generateFresh
    pwd,                \* changeUID, generateFresh
    validationResult,   \* what the self-check's validateBin returned
    results,            \* validateFiles
    summary,            \* validateFiles: the counts it prints
    warned,             \* the 'failed validation' warning was printed
    ret,                \* how the call ended: a thrown error, or the value returned
    events              \* what the call has done to the outside so far, in order

vars == << keys, oracle, fs, calls, pc, call, templateData, unpackedData,
           originalAmiiboID, newUID, packedData, pwd, validationResult,
           results, summary, warned, ret, events >>

locals == << templateData, unpackedData, originalAmiiboID, newUID,
             packedData, pwd, validationResult, results, summary, warned >>

NotRead == "?"
NoCall == [name |-> "none", keyPath |-> NotRead, templatePath |-> NotRead,
           amiiboId |-> << >>, outputPath |-> NotRead, customUID |-> NullArg,
           filePaths |-> << >>]
NoRet == [threw |-> FALSE, error |-> "none", value |-> << >>]
Throw(kind) == [threw |-> TRUE, error |-> kind, value |-> << >>]
Return(value) == [threw |-> FALSE, error |-> "none", value |-> value]
NoSummary == [validFiles |-> 0, invalidFiles |-> 0, total |-> 0]

Init ==
    /\ keys = "null"
    /\ oracle \in Oracles
    /\ fs = [p \in {q \in OutputPaths : ~Unwritable(q)} |-> Absent]
    /\ calls = 0
    /\ pc = "idle"
    /\ call = NoCall
    /\ templateData = << >>
    /\ unpackedData = << >>
    /\ originalAmiiboID = << >>
    /\ newUID = << >>
    /\ packedData = << >>
    /\ pwd = << >>
    /\ validationResult = ReturnedFalse
    /\ results = << >>
    /\ summary = NoSummary
    /\ warned = FALSE
    /\ ret = NoRet
    /\ events = << >>

\* a call ends: it threw, or it returned
End(r) == pc' = "done" /\ ret' = r

\* a tool that never looks at its keys
KeysNeverMissing(k) == FALSE

\* if (!this.keys) throw new Error('Master keys not loaded. Call loadKeys() first.')
KeysMissing(k) == k = "null"

(***************************************************************************)
(* loadKeys                                                                *)
(***************************************************************************)
KeyPaths == {"key_retail.bin", "bad.bin", "nokey.bin"}

\* maboii.loadMasterKeys on the bytes of the key file: the keys, or null
loadMasterKeys(keyPath) == IF keyPath = "key_retail.bin" THEN "loaded" ELSE "null"

LoadKeys(keyPath) ==
    /\ pc = "idle"
    /\ call' = [NoCall EXCEPT !.name = "loadKeys", !.keyPath = keyPath]
    /\ events' = << "read" >>
    /\ IF keyPath = "nokey.bin"
       THEN \* fs.readFileSync throws; this.keys is left as it was
            /\ keys' = keys
            /\ End(Return(FALSE))
       ELSE /\ keys' = loadMasterKeys(keyPath)
            /\ End(Return(keys' # "null"))
    /\ UNCHANGED << oracle, fs, calls, locals >>

(***************************************************************************)
(* changeUID                                                               *)
(***************************************************************************)
ChangeUID_Read(templatePath) ==
    /\ pc = "idle"
    /\ calls < MaxCalls
    /\ calls' = calls + 1
    /\ IF KeysMissing(keys)
       THEN /\ call' = [NoCall EXCEPT !.name = "changeUID"]
            /\ End(Throw("KeysError"))
            /\ events' = << >>
            /\ UNCHANGED templateData
       ELSE LET rd == readTemplateFile(Files(oracle, fs), templatePath)
            IN  /\ call' = [NoCall EXCEPT !.name = "changeUID",
                                          !.templatePath = templatePath]
                /\ events' = << "read" >>
                /\ IF rd.threw
                   THEN /\ End(Throw(IF IsNfcPath(templatePath) THEN "ParseError"
                                     ELSE "IoError"))
                        /\ UNCHANGED templateData
                   ELSE /\ templateData' = rd.data
                        /\ pc' = "cu_unpack"
                        /\ UNCHANGED ret
    /\ UNCHANGED << keys, oracle, fs, unpackedData, originalAmiiboID, newUID,
                    packedData, pwd, validationResult, results, summary, warned >>

\* if (!unpackResult.result) throw new Error('Failed to unpack template file - invalid HMAC')
ChangeUID_Unpack ==
    /\ pc = "cu_unpack"
    /\ LET unpackResult == Unpack(oracle, templateData)
       IN  /\ events' = Append(events, "decode")
           /\ IF ~unpackResult.result
              THEN /\ End(Throw("HmacError"))
                   /\ UNCHANGED << unpackedData, originalAmiiboID >>
              ELSE /\ unpackedData' = unpackResult.unpacked
                   /\ originalAmiiboID' = Slice(templateData, 84, 92)
                   /\ pc' = "cu_uid"
                   /\ UNCHANGED ret
    /\ UNCHANGED << keys, oracle, fs, calls, call, templateData, newUID,
                    packedData, pwd, validationResult, results, summary, warned >>

\* the new UID of either pipeline, and its patch into the unpacked data
NewUID(here, next) ==
    /\ pc = here
    /\ \E customUID \in CustomUIDs, randomBytes \in RandomSamples :
          LET parsed == parseCustomUID(customUID.s)
          IN  /\ call' = [call EXCEPT !.customUID = customUID]
              /\ IF Truthy(customUID) /\ parsed.threw
                 THEN /\ End(Throw("ValidationError"))
                      /\ UNCHANGED << newUID, unpackedData >>
                 ELSE /\ newUID' = IF Truthy(customUID) THEN parsed.uid
                                   ELSE generateRandomUID(randomBytes)
                      /\ unpackedData' = SetUID(unpackedData, newUID')
                      /\ pc' = next
                      /\ UNCHANGED ret
    /\ UNCHANGED << keys, oracle, fs, calls, templateData, originalAmiiboID,
                    packedData, pwd, validationResult, results, summary,
                    warned, events >>

ChangeUID_NewUID == NewUID("cu_uid", "cu_pack")

\* maboii.pack of either pipeline
PackStep(here, next) ==
    /\ pc = here
    /\ packedData' = Pack(oracle, unpackedData)
    /\ events' = Append(events, "encode")
    /\ pc' = next
    /\ UNCHANGED << keys, oracle, fs, calls, call, templateData, unpackedData,
                    originalAmiiboID, newUID, pwd, validationResult, results,
                    summary, warned, ret >>

ChangeUID_Pack == PackStep("cu_pack", "cu_patch")

ChangeUID_Patch ==
    /\ pc = "cu_patch"
    /\ packedData' = PatchChanged(packedData, originalAmiiboID)
    /\ pwd' = calculatePWD(packedData')
    /\ events' = Append(events, "patch")
    /\ pc' = "cu_write"
    /\ UNCHANGED << keys, oracle, fs, calls, call, templateData, unpackedData,
                    originalAmiiboID, newUID, validationResult, results,
                    summary, warned, ret >>

\* a write after which the image is encoded once more
WriteThenRepack(here, next) ==
    /\ pc = here
    /\ \E outputPath \in OutputPaths :
          /\ call' = [call EXCEPT !.outputPath = outputPath]
          /\ IF Unwritable(outputPath)
             THEN /\ End(Throw("IoError"))
                  /\ UNCHANGED << fs, events, packedData >>
             ELSE /\ fs' = [fs EXCEPT ![outputPath] = BinFile(ToBuffer(packedData))]
                  /\ packedData' = Pack(oracle, unpackedData)
                  /\ events' = Append(Append(events, "write"), "encode")
                  /\ pc' = next
                  /\ UNCHANGED ret
    /\ UNCHANGED << keys, oracle, calls, templateData, unpackedData,
                    originalAmiiboID, newUID, pwd, validationResult, results,
                    summary, warned >>

\* fs.writeFileSync(outputPath, Buffer.from(packedData)) of either pipeline
WriteStep(here, next) ==
    /\ pc = here
    /\ \E outputPath \in OutputPaths :
          /\ call' = [call EXCEPT !.outputPath = outputPath]
          /\ IF Unwritable(outputPath)
             THEN /\ End(Throw("IoError"))
                  /\ UNCHANGED << fs, events >>
             ELSE /\ fs' = [fs EXCEPT ![outputPath] = BinFile(ToBuffer(packedData))]
                  /\ events' = Append(events, "write")
                  /\ pc' = next
                  /\ UNCHANGED ret
    /\ UNCHANGED << keys, oracle, calls, locals >>

ChangeUID_Write == WriteStep("cu_write", "cu_check")

\* the self-check of either pipeline, and the return
SelfCheckStep(here, report) ==
    /\ pc = here
    /\ validationResult' = validateFile(oracle, Files(oracle, fs), call.outputPath)
    /\ LET after == AfterSelfCheck(fs, call.outputPath, validationResult', report)
       IN  /\ fs' = after.fs
           /\ warned' = after.warned
           /\ End(after.ret)
    /\ events' = Append(events, "validate")
    /\ UNCHANGED << keys, oracle, calls, call, templateData, unpackedData,
                    originalAmiiboID, newUID, packedData, pwd, results, summary >>

ChangeUID_SelfCheck ==
    SelfCheckStep("cu_check",
                  [uid |-> Slice(packedData, 0, 8), pwd |-> pwd,
                   amiiboId |-> TypedHexJoin(originalAmiiboID),
                   outputPath |-> call.outputPath])

(***************************************************************************)
(* generateFresh                                                           *)
(***************************************************************************)
GenerateFresh_Start ==
    /\ pc = "idle"
    /\ calls < MaxCalls
    /\ calls' = calls + 1
    /\ call' = [NoCall EXCEPT !.name = "generateFresh"]
    /\ events' = << >>
    /\ IF KeysMissing(keys)
       THEN /\ End(Throw("KeysError"))
            /\ UNCHANGED unpackedData
       ELSE /\ unpackedData' = Zeros(ImageSize)
            /\ pc' = "gf_uid"
            /\ UNCHANGED ret
    /\ UNCHANGED << keys, oracle, fs, templateData, originalAmiiboID, newUID,
                    packedData, pwd, validationResult, results, summary, warned >>

GenerateFresh_NewUID == NewUID("gf_uid", "gf_id")

GenerateFresh_SetId(amiiboId) ==
    /\ pc = "gf_id"
    /\ call' = [call EXCEPT !.amiiboId = amiiboId]
    /\ IF BadAmiiboId(amiiboId)
       THEN /\ unpackedData' = SetMagic(unpackedData)
            /\ End(Throw("ValidationError"))
       ELSE /\ unpackedData' = SetAmiiboId(SetMagic(unpackedData), amiiboId)
            /\ pc' = "gf_pack"
            /\ UNCHANGED ret
    /\ UNCHANGED << keys, oracle, fs, calls, templateData, originalAmiiboID,
                    newUID, packedData, pwd, validationResult, results,
                    summary, warned, events >>

GenerateFresh_Pack == PackStep("gf_pack", "gf_patch")

GenerateFresh_Patch ==
    /\ pc = "gf_patch"
    /\ packedData' = PatchFresh(packedData)
    /\ pwd' = calculatePWD(packedData')
    /\ events' = Append(events, "patch")
    /\ pc' = "gf_write"
    /\ UNCHANGED << keys, oracle, fs, calls, call, templateData, unpackedData,
                    originalAmiiboID, newUID, validationResult, results,
                    summary, warned, ret >>

GenerateFresh_Write == WriteStep("gf_write", "gf_check")

GenerateFresh_SelfCheck ==
    SelfCheckStep("gf_check",
                  [uid |-> Slice(packedData, 0, 8), pwd |-> pwd,
                   amiiboId |-> call.amiiboId, outputPath |-> call.outputPath])

(***************************************************************************)
(* validateFiles                                                           *)
(***************************************************************************)
ValidatePaths == {"mario.nfc", "badsig.bin", "badpack.bin", "short.bin",
                  "broken.nfc", "missing.bin"}

FileLists == UNION {[1..n -> ValidatePaths] : n \in 0..MaxFiles}

ValidateFiles(filePaths) ==
    /\ pc = "idle"
    /\ calls < MaxCalls
    /\ calls' = calls + 1
    /\ IF KeysMissing(keys)
       THEN /\ call' = [NoCall EXCEPT !.name = "validateFiles"]
            /\ End(Throw("KeysError"))
            /\ events' = << >>
            /\ UNCHANGED << results, summary >>
       ELSE /\ call' = [NoCall EXCEPT !.name = "validateFiles",
                                      !.filePaths = filePaths]
            /\ results' = ValidateAll(oracle, Files(oracle, fs), filePaths)
            /\ LET validFiles == CountValid(results')
               IN  summary' = [validFiles |-> validFiles,
                               invalidFiles |-> Len(results') - validFiles,
                               total |-> Len(results')]
            /\ events' = [k \in 1..Len(filePaths) |-> "validate"]
            /\ End(Return(results'))
    /\ UNCHANGED << keys, oracle, fs, templateData, unpackedData, originalAmiiboID,
                    newUID, packedData, pwd, validationResult, warned >>

(***************************************************************************)
(* The caller takes the result; the tool is ready for the next call.       *)
(***************************************************************************)
Finish ==
    /\ pc = "done"
    /\ pc' = "idle"
    /\ call' = NoCall
    /\ templateData' = << >>
    /\ unpackedData' = << >>
    /\ originalAmiiboID' = << >>
    /\ newUID' = << >>
    /\ packedData' = << >>
    /\ pwd' = << >>
    /\ validationResult' = ReturnedFalse
    /\ results' = << >>
    /\ summary' = NoSummary
    /\ warned' = FALSE
    /\ ret' = NoRet
    /\ events' = << >>
    /\ UNCHANGED << keys, oracle, fs, calls >>

Next ==
    \/ \E keyPath \in KeyPaths : LoadKeys(keyPath)
    \/ \E templatePath \in TemplatePaths : ChangeUID_Read(templatePath)
    \/ ChangeUID_Unpack
    \/ ChangeUID_NewUID
    \/ ChangeUID_Pack
    \/ ChangeUID_Patch
    \/ ChangeUID_Write
    \/ ChangeUID_SelfCheck
    \/ GenerateFresh_Start
    \/ GenerateFresh_NewUID
    \/ \E amiiboId \in AmiiboIds : GenerateFresh_SetId(amiiboId)
    \/ GenerateFresh_Pack
    \/ GenerateFresh_Patch
    \/ GenerateFresh_Write
    \/ GenerateFresh_SelfCheck
    \/ \E filePaths \in FileLists : ValidateFiles(filePaths)
    \/ Finish

Spec == Init /\ [][Next]_vars

(***************************************************************************)
(* The text adapter on its own: readTemplateFile on a capture, for the     *)
(* captures below.  They are the capture of the figure's dump with one     *)
(* line made a line of another kind, one line added, one line left out or  *)
(* two lines swapped.                                                      *)
(***************************************************************************)
MarioCapture == CaptureLines(MarioDump([kind |-> "signed", seed |-> 0, accept |-> TRUE]))

LineKinds == {"header", "other", "Page", "page", "PageBad", "PageHeader"}

\* the lines at which the captures explored differ from the figure's
EditedLines == {1, 2, 3, 70, 137}

WithKind(lines, k, kind) ==
    [lines EXCEPT ![k] = [kind |-> kind, n |-> @.n,
                          bytes |-> IF @.bytes = << >> THEN << 222, 173, 190, 239 >>
                                    ELSE @.bytes]]

WithExtra(lines, k, kind) ==
    SubSeq(lines, 1, k) \o << [kind |-> kind, n |-> 200, bytes |-> << 1, 2, 3, 4 >>] >>
    \o SubSeq(lines, k + 1, Len(lines))

Without(lines, k) == SubSeq(lines, 1, k - 1) \o SubSeq(lines, k + 1, Len(lines))

Swapped(lines, k) == [lines EXCEPT ![k] = lines[k + 1], ![k + 1] = lines[k]]

TextInputs ==
    {MarioCapture, << >>, SubSeq(MarioCapture, 1, 1)}
    \cup {WithKind(MarioCapture, k, kind) : k \in EditedLines, kind \in LineKinds}
    \cup {WithExtra(MarioCapture, k, kind) : k \in EditedLines, kind \in LineKinds}
    \cup {WithExtra(WithKind(MarioCapture, k, kind), 137, "Page") :
              k \in EditedLines, kind \in {"page", "PageBad", "other"}}
    \cup {Without(WithKind(MarioCapture, 1, "PageHeader"), k) : k \in EditedLines \ {1}}
    \cup {Swapped(MarioCapture, k) : k \in EditedLines \ {137}}

InitParse ==
    /\ keys = "null"
    /\ oracle = [kind |-> "signed", seed |-> 0, accept |-> TRUE]
    /\ \E lines \in TextInputs : fs = [p \in {"capture.nfc"} |-> TextFile(lines)]
    /\ calls = 0
    /\ pc = "idle"
    /\ call = NoCall
    /\ templateData = << >>
    /\ unpackedData = << >>
    /\ originalAmiiboID = << >>
    /\ newUID = << >>
    /\ packedData = << >>
    /\ pwd = << >>
    /\ validationResult = ReturnedFalse
    /\ results = << >>
    /\ summary = NoSummary
    /\ warned = FALSE
    /\ ret = NoRet
    /\ events = << >>

\* readTemplateFile('capture.nfc'): the bytes, or the error of parseNFCFile
ParseCapture ==
    /\ pc = "idle"
    /\ call' = [NoCall EXCEPT !.name = "readTemplateFile", !.templatePath = "capture.nfc"]
    /\ LET rd == readTemplateFile(fs, "capture.nfc")
       IN  /\ templateData' = rd.data
           /\ End(IF rd.threw THEN Throw("ParseError") ELSE Return(rd.data))
    /\ events' = << "read" >>
    /\ UNCHANGED << keys, oracle, fs, calls, unpackedData, originalAmiiboID, newUID,
                    packedData, pwd, validationResult, results, summary, warned >>

NextParse == ParseCapture

SpecParse == InitParse /\ [][NextParse]_vars

(***************************************************************************)
(* What the properties below speak of.                                     *)
(***************************************************************************)
\* the running call is one of the two pipelines
InPipeline == call.name \in {"changeUID", "generateFresh"}

\* the running call has written its output file
HasWritten == \E k \in 1..Len(events) : events[k] = "write"

\* the bytes at the output path of the running call
WrittenImage == fs[call.outputPath].data

\* the PWD of a packed image, from its bytes 0..7
Pwd4Of(d) ==
    << Xor(Xor(170, At(d, 1)), At(d, 4)), Xor(Xor(85, At(d, 2)), At(d, 5)),
       Xor(Xor(170, At(d, 4)), At(d, 6)), Xor(Xor(85, At(d, 5)), At(d, 7)) >>

\* encode inverts decode, and the logical UID block 468..475 is the packed
\* bytes 0..7, the logical amiibo ID 476..483 the packed bytes 84..91
CorrectOracle(o) ==
    LET packed == Pack(o, MarioLogical)
        back == Unpack(o, packed)
    IN  /\ back.result
        /\ Pack(o, back.unpacked) = packed
        /\ Slice(packed, 0, 8) = Slice(MarioLogical, 468, 476)
        /\ Slice(packed, 84, 92) = Slice(MarioLogical, 476, 484)

\* the oracles that are correct, worked out once
CorrectOracles == {o \in Oracles : CorrectOracle(o)}

(***************************************************************************)
(* C1.  Every image either pipeline has written carries position 8 = the   *)
(* XOR of its bytes 4..7, PWD (532..535) = the PWD formula of its own      *)
(* bytes 0..7 and PACK (536..537) = 80 80, whatever pack returned; when    *)
(* the validator of the self-check reports on the file just written, its   *)
(* position 8, PWD and PACK checks pass.                                   *)
(***************************************************************************)
C1_WrittenImageHasDerivedFields ==
    /\ \A p \in DOMAIN fs :
           fs[p].kind = "bin" =>
               LET d == fs[p].data
               IN  /\ Len(d) >= 538
                   /\ \A k \in 1..Len(d) : d[k] \in Byte
                   /\ At(d, 8) = Xor(Xor(Xor(At(d, 4), At(d, 5)), At(d, 6)), At(d, 7))
                   /\ Slice(d, 532, 536) = Pwd4Of(d)
                   /\ Slice(d, 536, 538) = << 128, 128 >>
    /\ pc = "done" /\ InPipeline /\ HasWritten /\ validationResult.isReport
       => /\ validationResult.pos8Valid
          /\ validationResult.pwdValid
          /\ validationResult.packValid

\* changeUID has written what an arbitrary pack returned, and the validator
\* has reported on it
C1_Witness ==
    /\ pc = "done"
    /\ call.name = "changeUID"
    /\ oracle.kind = "garbage"
    /\ HasWritten
    /\ call.outputPath = "out.bin"
    /\ validationResult.isReport
    /\ validationResult.pos8Valid

(***************************************************************************)
(* C2.  As claimed: for a 540-byte image whose decode fails, the validator *)
(* still returns a report, with hmacValid = false and position 8, PWD and  *)
(* PACK checked on the raw bytes.                                          *)
(***************************************************************************)
\* the file at filePath is read as 540 bytes and its decode fails
DecodeFailsOn(o, fsys, filePath) ==
    LET rd == readTemplateFile(fsys, filePath)
    IN  /\ fsys[filePath].kind # "absent"
        /\ ~rd.threw
        /\ Len(rd.data) = ImageSize
        /\ ~Unpack(o, rd.data).result

\* the same of the given files, worked out once
GivenDecodeFails ==
    Table([o \in Oracles |->
              Table([p \in GivenPaths |-> DecodeFailsOn(o, GivenFiles(o), p)])])

\* the file at position k of the list is read as 540 bytes and its decode fails
DecodeFails(k) ==
    LET filePath == results[k].file
    IN  IF filePath \in GivenPaths THEN GivenDecodeFails[oracle][filePath]
        ELSE DecodeFailsOn(oracle, Files(oracle, fs), filePath)

C2_ReportDespiteDecodeFailure ==
    \A k \in 1..Len(results) :
        DecodeFails(k) =>
            LET d == readTemplateFile(Files(oracle, fs), results[k].file).data
                result == results[k].result
            IN  /\ result.isReport
                /\ result.hmacValid = FALSE
                /\ result.pos8Valid = (At(d, 8) = Position8(d))
                /\ result.pwdValid = (Slice(d, 532, 536) = Pwd4Of(d))
                /\ result.packValid = (Slice(d, 536, 538) = << 128, 128 >>)

(***************************************************************************)
(* C2, amended.  For a 540-byte image whose decode fails the validator     *)
(* stops at the decode: it returns false, no report, and checks neither    *)
(* position 8 nor PWD nor PACK; so every report it does return, from       *)
(* validateFiles or from a pipeline's self-check, has hmacValid = true.    *)
(***************************************************************************)
C2_DecodeFailureReturnsFalse ==
    /\ \A k \in 1..Len(results) :
           /\ DecodeFails(k) => results[k].result = ReturnedFalse
           /\ results[k].result.isReport => results[k].result.hmacValid
    /\ validationResult.isReport => validationResult.hmacValid

\* validateFiles has met a 540-byte file whose signature is wrong
C2_Witness ==
    /\ pc = "done"
    /\ call.name = "validateFiles"
    /\ \E k \in 1..Len(results) :
           /\ results[k].file = "badsig.bin"
           /\ DecodeFails(k)
           /\ results[k].result = ReturnedFalse

(***************************************************************************)
(* C3.  A call of changeUID or generateFresh that ends in a                *)
(* ValidationError or an HmacError has written nothing: no write is among  *)
(* the things it did, and the files change only in the step that records   *)
(* a write.                                                                *)
(***************************************************************************)
C3_NoWriteOnValidationOrHmacError ==
    /\ [](pc = "done" /\ InPipeline /\ ret.threw
             /\ ret.error \in {"ValidationError", "HmacError"}
          => ~HasWritten)
    /\ [][fs' # fs => events' = Append(events, "write")]_vars


\* changeUID has ended in an HmacError
C3_Witness ==
    /\ pc = "done"
    /\ call.name = "changeUID"
    /\ ret.threw
    /\ ret.error = "HmacError"
    /\ \A p \in DOMAIN fs : fs[p] = Absent

(***************************************************************************)
(* C4.  Once a pipeline has written its file the call cannot fail any      *)
(* more: it ends by returning its report, whatever the self-check found    *)
(* (valid, invalid, or an error reading the file back, which validateBin   *)
(* turns into false); a failed self-check shows as the warning only; and   *)
(* the file is exactly what was written, never removed or rewritten.       *)
(***************************************************************************)
C4_SelfCheckNeverFailsTheCall ==
    /\ [](pc = "done" /\ InPipeline /\ HasWritten
          => /\ ~ret.threw
             /\ ret.value.outputPath = call.outputPath
             /\ ret.value.uid = Slice(packedData, 0, 8)
             /\ fs[call.outputPath] = BinFile(ToBuffer(packedData))
             /\ validationResult = validateBin(oracle, Files(oracle, fs), call.outputPath)
             /\ warned = (~validationResult.isReport \/ ~validationResult.valid))
    /\ [][HasWritten => fs' = fs /\ (pc # "done" => pc' = "done" /\ ~ret'.threw)]_vars

\* the self-check could not even read the file back, and the call returned
C4_Witness ==
    /\ pc = "done"
    /\ InPipeline
    /\ HasWritten
    /\ call.outputPath = "out.nfc"
    /\ validationResult = ReturnedFalse
    /\ warned
    /\ ~ret.threw
    /\ fs["out.nfc"].kind = "bin"

(***************************************************************************)
(* C5.  validateFiles with the keys loaded goes through the whole list in  *)
(* order: one entry per file, entry k for file k with what validateBin     *)
(* makes of that file alone, whatever the files before it were (missing,   *)
(* unreadable, invalid); it does not throw; and the counts of valid and    *)
(* invalid files add up to the length of the list.                         *)
(***************************************************************************)
C5_EveryFileValidatedInOrder ==
    pc = "done" /\ call.name = "validateFiles" /\ keys # "null"
    => /\ ~ret.threw
       /\ ret.value = results
       /\ Len(results) = Len(call.filePaths)
       /\ \A k \in 1..Len(call.filePaths) :
              /\ results[k].file = call.filePaths[k]
              /\ results[k].result
                     = validateFile(oracle, Files(oracle, fs), call.filePaths[k])
       /\ summary.total = Len(call.filePaths)
       /\ summary.validFiles
              = Cardinality({k \in 1..Len(results) :
                                 results[k].result.isReport /\ results[k].result.valid})
       /\ summary.validFiles + summary.invalidFiles = summary.total

\* a missing file first, a valid one after it, and the valid one was validated
C5_Witness ==
    /\ pc = "done"
    /\ call.name = "validateFiles"
    /\ call.filePaths = << "missing.bin", "mario.nfc" >>
    /\ Len(results) = 2
    /\ results[1].result = ReturnedFalse
    /\ results[2].result.isReport
    /\ results[2].result.valid
    /\ summary = [validFiles |-> 1, invalidFiles |-> 1, total |-> 2]


(***************************************************************************)
(* C6.  In every report of the validator, valid is the conjunction of      *)
(* hmacValid, pos8Valid, pwdValid and packValid.  Corrupting only bytes    *)
(* 536..537 of a fully valid image, the unpack result being the same,      *)
(* makes packValid and valid false and leaves pos8Valid and pwdValid as    *)
(* they were; so it is with the file whose PACK is 80 81.                  *)
(***************************************************************************)
IsConjunction(report) ==
    report.valid = (report.hmacValid /\ report.pos8Valid
                    /\ report.pwdValid /\ report.packValid)

CorruptPacks == {<< 128, 129 >>, << 0, 128 >>, << 129, 128 >>, << 0, 0 >>}

\* the reports on the file at filePath with its bytes 536..537 corrupted, the
\* unpack result being that of the file as it is
CorruptedReports(o, fsys, filePath) ==
    LET d == readTemplateFile(fsys, filePath).data
        unpackResult == Unpack(o, d)
    IN  Table([pack \in CorruptPacks |-> Report(PatchAt(d, 536, pack), unpackResult)])

\* the same of the given files the validator reports on, worked out once
GivenCorrupted ==
    Table([o \in Oracles |->
              Table([p \in GivenPaths |->
                        IF GivenResults[o][p].isReport
                        THEN CorruptedReports(o, GivenFiles(o), p)
                        ELSE << >>])])

C6_ValidIsConjunctionOfChecks ==
    /\ validationResult.isReport => IsConjunction(validationResult)
    /\ \A k \in 1..Len(results) :
           LET result == results[k].result
           IN  /\ result.isReport => IsConjunction(result)
               /\ result.isReport /\ result.valid =>
                      LET reports ==
                              IF results[k].file \in GivenPaths
                              THEN GivenCorrupted[oracle][results[k].file]
                              ELSE CorruptedReports(oracle, Files(oracle, fs),
                                                    results[k].file)
                      IN  \A pack \in CorruptPacks :
                              LET corrupted == reports[pack]
                              IN  /\ ~corrupted.packValid
                                  /\ ~corrupted.valid
                                  /\ corrupted.hmacValid = result.hmacValid
                                  /\ corrupted.pos8Valid = result.pos8Valid
                                  /\ corrupted.pwdValid = result.pwdValid
               /\ results[k].file = "badpack.bin" /\ result.isReport =>
                      /\ ~result.packValid
                      /\ ~result.valid
                      /\ result.hmacValid /\ result.pos8Valid /\ result.pwdValid

\* one list holds a valid capture and the dump whose PACK is 80 81
C6_Witness ==
    /\ pc = "done"
    /\ call.name = "validateFiles"
    /\ call.filePaths = << "mario.nfc", "badpack.bin" >>
    /\ results[1].result.isReport /\ results[1].result.valid
    /\ results[2].result.isReport /\ ~results[2].result.packValid
    /\ results[2].result.pos8Valid

(***************************************************************************)
(* C7.  As claimed: under a correct oracle, the output of changeUID on a   *)
(* valid 540-byte template equals the template at every offset outside     *)
(* the UID block (0..7), position 8, PWD (532..535) and PACK (536..537).   *)
(***************************************************************************)
FrameOffsets == (0..(ImageSize - 1)) \ ((0..8) \cup (532..537))

\* what decode makes of the template of the running changeUID, what encode
\* makes of that, and what encode makes of it with the new UID
Transforms ==
    LET decoded == Unpack(oracle, templateData)
    IN  [decoded |-> decoded,
         forOld |-> Pack(oracle, decoded.unpacked),
         forNew |-> Pack(oracle, unpackedData)]

\* encode inverts decode on the template of the running changeUID, and puts
\* the logical UID block at the packed bytes 0..7
CorrectOnTemplate(t) ==
    /\ oracle \in CorrectOracles
    /\ t.decoded.result
    /\ t.forOld = templateData
    /\ Slice(t.forNew, 0, 8) = Slice(unpackedData, 468, 476)

C7_OutputEqualsTemplateOutsideFields ==
    call.name = "changeUID" /\ HasWritten /\ Len(templateData) = ImageSize
    /\ CorrectOnTemplate(Transforms)
    => \A i \in FrameOffsets : At(WrittenImage, i) = At(templateData, i)

(***************************************************************************)
(* C7, amended.  changeUID on a 540-byte template changes the logical      *)
(* image in the UID block 468..475 only, and of what encode returns it     *)
(* changes only position 8, the amiibo ID 84..91 (put back from the        *)
(* template), PWD and PACK.  So outside the UID block, position 8, PWD and *)
(* PACK the output equals the template at 84..91 and wherever encode's     *)
(* output does; it equals the template everywhere there when the oracle    *)
(* is correct and its encode yields those bytes whatever the UID block     *)
(* holds.  The bytes a correct oracle derives from the UID (a signature)   *)
(* differ from the template's.                                             *)
(***************************************************************************)
\* outside the fields, encode gives the same for the new UID as for the old
EncodeIgnoresUID(t) ==
    \A i \in FrameOffsets : At(t.forNew, i) = At(t.forOld, i)

C7_OutputEqualsTemplateWhereEncodeDoes ==
    call.name = "changeUID" /\ HasWritten /\ Len(templateData) = ImageSize
    => LET t == Transforms
           decoded == t.decoded.unpacked
           encoded == t.forNew
       IN  /\ \A i \in (0..(ImageSize - 1)) \ (468..475) :
                  At(unpackedData, i) = At(decoded, i)
           /\ \A i \in FrameOffsets :
                  At(WrittenImage, i) = IF i \in 84..91 THEN At(templateData, i)
                                        ELSE At(encoded, i)
           /\ CorrectOnTemplate(t) /\ EncodeIgnoresUID(t)
              => \A i \in FrameOffsets : At(WrittenImage, i) = At(templateData, i)

\* a correct oracle whose encode ignores the UID outside the fields: the UID
\* has changed, and nothing outside the fields has
C7_Witness ==
    /\ pc = "done"
    /\ call.name = "changeUID"
    /\ HasWritten
    /\ Len(templateData) = ImageSize
    /\ LET t == Transforms IN CorrectOnTemplate(t) /\ EncodeIgnoresUID(t)
    /\ Slice(WrittenImage, 0, 8) # Slice(templateData, 0, 8)
    /\ \A i \in FrameOffsets : At(WrittenImage, i) = At(templateData, i)

(***************************************************************************)
(* C8.  Whatever template decoded and whatever the UID, the file changeUID *)
(* writes has at 84..91 the bytes the packed template has there, whatever  *)
(* encode returned at those offsets.                                       *)
(***************************************************************************)
C8_AmiiboIdOfTemplateKept ==
    call.name = "changeUID" /\ HasWritten
    => /\ Slice(WrittenImage, 84, 92) = Slice(templateData, 84, 92)
       /\ Len(Slice(WrittenImage, 84, 92)) = 8

\* encode returned other bytes at 84..91 than the template has
C8_Witness ==
    /\ pc = "done"
    /\ call.name = "changeUID"
    /\ HasWritten
    /\ Slice(Pack(oracle, unpackedData), 84, 92) # Slice(templateData, 84, 92)
    /\ Slice(WrittenImage, 84, 92) = << 0, 0, 0, 0, 0, 52, 1, 2 >>


(***************************************************************************)
(* C9.  generateFresh with the 16 hex characters 1919000000090002 and the  *)
(* 14 hex characters 0451186d0da09e hands encode a logical image that is   *)
(* 0 everywhere but for 04 51 18 c5 6d 0d a0 9e at 468..475 (c5 being      *)
(* 04 ^ 51 ^ 18 ^ 88), the 8 magic bytes at 9..16, the ID bytes at         *)
(* 476..483 and the 20 magic bytes at 520..539; under a correct oracle the *)
(* written image has the UID block at 0..7 and the ID bytes at 84..91.     *)
(***************************************************************************)
FreshUidBlock == << 4, 81, 24, 197, 109, 13, 160, 158 >>
FreshIdBytes == << 25, 25, 0, 0, 0, 9, 0, 2 >>

FreshLogical ==
    [k \in 1..ImageSize |->
        LET i == k - 1
        IN  IF i \in 468..475 THEN FreshUidBlock[i - 467]
            ELSE IF i \in 9..16
            THEN << 72, 15, 224, 241, 16, 255, 238, 165 >>[i - 8]
            ELSE IF i \in 476..483 THEN FreshIdBytes[i - 475]
            ELSE IF i \in 520..539
            THEN << 1, 0, 15, 191, 0, 0, 0, 4, 95, 0, 0, 0, 78, 219, 241, 40,
                    128, 128, 0, 0 >>[i - 519]
            ELSE 0]

\* generateFresh has read both arguments, and they are the two of the scenario
FreshScenario ==
    /\ call.name = "generateFresh"
    /\ call.customUID = Str(Uid14)
    /\ call.amiiboId = Id16

C9_FreshLogicalImageAndOutput ==
    FreshScenario
    => /\ pc \in {"gf_pack", "gf_patch", "gf_write", "gf_check", "done"}
       /\ unpackedData = FreshLogical
       /\ pc \in {"gf_patch", "gf_write", "gf_check", "done"}
          => \E k \in 1..Len(events) : events[k] = "encode"
       /\ HasWritten /\ oracle \in CorrectOracles
          => /\ Slice(WrittenImage, 0, 8) = FreshUidBlock
             /\ Slice(WrittenImage, 84, 92) = FreshIdBytes

\* the scenario has run to its end under a correct oracle
C9_Witness ==
    /\ pc = "done"
    /\ FreshScenario
    /\ HasWritten
    /\ CorrectOracle(oracle)
    /\ Slice(WrittenImage, 0, 8) = FreshUidBlock
    /\ ~ret.threw

(***************************************************************************)
(* C10.  As claimed: every image either pipeline has written has the       *)
(* magic bytes 48 0f e0 f1 10 ff ee a5 at 9..16, whatever encode returned  *)
(* there.                                                                  *)
(***************************************************************************)
C10_MagicInEveryWrittenImage ==
    \A p \in DOMAIN fs :
        fs[p].kind = "bin"
        => Slice(fs[p].data, 9, 17) = << 72, 15, 224, 241, 16, 255, 238, 165 >>

(***************************************************************************)
(* C10, amended.  Every image generateFresh has written has the magic      *)
(* bytes 48 0f e0 f1 10 ff ee a5 at 9..16, whatever encode returned there. *)
(* changeUID does not patch these offsets: its image has at 9..16 the      *)
(* bytes encode returned.                                                  *)
(***************************************************************************)
C10_MagicInFreshImageOnly ==
    InPipeline /\ HasWritten
    => IF call.name = "generateFresh"
       THEN Slice(WrittenImage, 9, 17) = << 72, 15, 224, 241, 16, 255, 238, 165 >>
       ELSE Slice(WrittenImage, 9, 17) = Slice(Pack(oracle, unpackedData), 9, 17)

\* generateFresh has written the magic bytes where encode had returned others
C10_Witness ==
    /\ pc = "done"
    /\ call.name = "generateFresh"
    /\ HasWritten
    /\ Slice(Pack(oracle, unpackedData), 9, 17) # magicBytes1
    /\ Slice(WrittenImage, 9, 17) = magicBytes1

(***************************************************************************)
(* C11.  As claimed: a pipeline that is given a custom UID goes on with    *)
(* it only when it is exactly 14 hex characters, and then the new UID is   *)
(* the 7 bytes these encode, whatever the first byte; given any other      *)
(* string (another length, or 14 characters one of which is no hex digit)  *)
(* it ends in a ValidationError and has written nothing.                   *)
(***************************************************************************)
\* exactly n characters, every one a hex digit
IsHex(s, n) == Len(s) = n /\ \A k \in 1..Len(s) : s[k] \in HexChar

\* the bytes that a string of hex digits encodes
HexBytes(s) == [k \in 1..(Len(s) \div 2) |-> 16 * s[2 * k - 1] + s[2 * k]]

\* the running pipeline has read its custom UID, and it is a string to parse
CustomUIDGiven ==
    /\ InPipeline
    /\ pc \notin {"idle", "cu_unpack", "cu_uid", "gf_uid"}
    /\ ~call.customUID.null
    /\ call.customUID.s # << >>

C11_OnlyFourteenHexAccepted ==
    CustomUIDGiven
    => IF IsHex(call.customUID.s, 14)
       THEN newUID = HexBytes(call.customUID.s)
       ELSE /\ pc = "done"
            /\ ret.threw
            /\ ret.error = "ValidationError"
            /\ ~HasWritten

(***************************************************************************)
(* C12.  As claimed: generateFresh checks its amiibo ID first: with an ID  *)
(* that is not exactly 16 hex characters the call ends in a                *)
(* ValidationError, no UID has been derived, no logical image built, the   *)
(* oracle has not been called and nothing has been written.                *)
(***************************************************************************)
\* generateFresh has read its amiibo ID
AmiiboIdRead == call.name = "generateFresh" /\ call.amiiboId # << >>

C12_BadAmiiboIdFailsFirst ==
    AmiiboIdRead /\ ~IsHex(call.amiiboId, 16)
    => /\ pc = "done"
       /\ ret.threw
       /\ ret.error = "ValidationError"
       /\ newUID = << >>
       /\ unpackedData = << >>
       /\ \A k \in 1..Len(events) : events[k] \notin {"encode", "write"}

(***************************************************************************)
(* C13.  As claimed: of a capture whose first line holds the marker, the   *)
(* text adapter returns the bytes of the lines after the first that the    *)
(* page pattern matches, the word 'Page' in either case, four bytes a      *)
(* line in the order of the lines; it fails unless these are 540 bytes.    *)
(***************************************************************************)
\* readTemplateFile has been called on the capture
CaptureRead == pc = "done" /\ call.name = "readTemplateFile"

\* the lines of the capture
Capture == fs["capture.nfc"].lines

\* the bytes of the lines kept, four a line, in the order of the lines
BytesOf(kept) ==
    [j \in 1..(4 * Len(kept)) |-> kept[((j - 1) \div 4) + 1].bytes[((j - 1) % 4) + 1]]

\* the pattern matches the line, whatever the case of the word
ClaimedPage(line) == line.kind \in {"Page", "page", "PageHeader"}

C13_PagesAfterFirstLineAnyCase ==
    CaptureRead /\ Capture # << >> /\ Capture[1].kind \in {"header", "PageHeader"}
    => LET kept == SelectSeq(Tail(Capture), ClaimedPage)
       IN  IF 4 * Len(kept) = ImageSize
           THEN ~ret.threw /\ ret.value = BytesOf(kept)
           ELSE ret.threw

(***************************************************************************)
(* C13, amended.  Of a capture whose first line holds the marker, the text *)
(* adapter returns the bytes of the lines, the first included, that start  *)
(* with 'Page ' as written (a line 'page 5: ...' is passed over) and hold  *)
(* a match of the pattern, whose hex digits may be of either case, four    *)
(* bytes a line in the order of the lines, whatever page numbers they      *)
(* carry; it fails unless these are 540 bytes.                             *)
(***************************************************************************)
\* the line starts with 'Page ' as written, and the pattern matches it
KeptPage(line) == line.kind \in {"Page", "PageHeader"}

C13_PagesAsWrittenInFileOrder ==
    CaptureRead /\ Capture # << >> /\ Capture[1].kind \in {"header", "PageHeader"}
    => LET kept == SelectSeq(Capture, KeptPage)
       IN  IF 4 * Len(kept) = ImageSize
           THEN ~ret.threw /\ ret.value = BytesOf(kept) /\ templateData = ret.value
           ELSE ret.threw

\* a capture of 136 page lines, one of them 'page ...': it is passed over, and
\* the other 135 are the image
C13_Witness ==
    /\ CaptureRead
    /\ ~ret.threw
    /\ Len(ret.value) = ImageSize
    /\ Cardinality({k \in 1..Len(Capture) : ClaimedPage(Capture[k])}) = 136
    /\ \E k \in 1..Len(Capture) : Capture[k].kind = "page"

MalformedPageLine(line) == StartsWithPage(line) /\ ~MatchesPage(line)

C15_MalformedLineFailsFile ==
    CaptureRead
    => ((\/ Capture = << >>
         \/ ~IncludesMarker(Capture[1])
         \/ \E k \in 1..Len(Capture) : MalformedPageLine(Capture[k]))
        => ret.threw)

(***************************************************************************)
(* C16.  A successful changeUID has read the template, decoded it, encoded *)
(* the image, patched it, written it and validated the written file, in    *)
(* this order and each once; a successful generateFresh the same from the  *)
(* encoding on.  In no run is the image encoded after a patch; once the    *)
(* file is written, the image in memory and the files stay as they are,    *)
(* and the file holds the image.                                           *)
(***************************************************************************)
StepsOfChangeUID == << "read", "decode", "encode", "patch", "write", "validate" >>
StepsOfGenerateFresh == << "encode", "patch", "write", "validate" >>

C16_StepsInFixedOrder ==
    /\ [](pc = "done" /\ InPipeline /\ ~ret.threw
          => events = IF call.name = "changeUID" THEN StepsOfChangeUID
                      ELSE StepsOfGenerateFresh)
    /\ [](InPipeline
          => \A j, k \in 1..Len(events) :
                 events[j] = "patch" /\ events[k] = "encode" => k < j)
    /\ [](InPipeline /\ HasWritten
          => fs[call.outputPath] = BinFile(ToBuffer(packedData)))
    /\ [][InPipeline /\ HasWritten /\ pc # "done"
          => packedData' = packedData /\ fs' = fs]_vars

\* a changeUID that returned its report
C16_Witness ==
    /\ pc = "done"
    /\ call.name = "changeUID"
    /\ ~ret.threw
    /\ events = StepsOfChangeUID
    /\ fs[call.outputPath] = BinFile(ToBuffer(packedData))

(***************************************************************************)
(* C17.  With no keys loaded, changeUID, generateFresh and validateFiles   *)
(* end at once with the error of the missing keys: nothing was read,       *)
(* written, decoded, encoded or validated, and the files and the fields    *)
(* of the tool are as before.  A loadKeys that returned true left keys     *)
(* that are not null.                                                      *)
(***************************************************************************)
NeedsKeys == {"changeUID", "generateFresh", "validateFiles"}

C17_NoKeysNoWork ==
    /\ [](pc = "done" /\ call.name = "loadKeys" /\ ret.value = TRUE
          => keys # "null")
    /\ [](call.name \in NeedsKeys /\ keys = "null"
          => /\ pc = "done"
             /\ ret.threw
             /\ ret.error = "KeysError"
             /\ events = << >>)
    /\ [][pc = "idle" /\ keys = "null" /\ call'.name \in NeedsKeys
          => /\ pc' = "done"
             /\ ret'.threw
             /\ fs' = fs
             /\ keys' = keys
             /\ UNCHANGED locals]_vars

\* a changeUID on a tool whose keys are null (never loaded, or made null again
\* by a loadKeys on a file that holds no keys) has failed
C17_Witness ==
    /\ pc = "done"
    /\ call.name = "changeUID"
    /\ keys = "null"
    /\ ret.threw
    /\ ret.error = "KeysError"
    /\ events = << >>

=============================================================================
